---- MODULE Spec2Model ----
(***************************************************************************)
(* State-machine model of the mini-shell execution engine, src/src/cmd.c.  *)
(*                                                                         *)
(* A C string is a tuple of one-character strings, so that string[0] and   *)
(* concatenation are what the code computes.  A pointer that may be NULL   *)
(* is a tuple of length 0 (NULL) or 1 (the pointee); a word_t chain linked *)
(* through next_part is the tuple of its fragments, NULL being <<>>.       *)
(***************************************************************************)
EXTENDS Integers, Sequences, FiniteSets, TLC

\* Largest number of operator (internal) nodes of the command tree: under
\* Spec, whose leaves hold any of SimpleCommands, and under SpecTree, whose
\* leaves hold one of TreeCommands.
MaxOps == 1
MaxTreeOps == 2

\* Statuses of cmd.h / utils.h (headers outside src/): 0 is success, the
\* failure status is nonzero, the sentinel is distinct from both.
SUCCESS_CODE == 0
FAILURE_CODE == 1
SHELL_EXIT == -100

NULL == <<>>
Ptr(x) == <<x>>

----------------------------------------------------------------------------
\* Strings the inputs are built from.
S_empty == <<>>
S_cd == <<"c", "d">>
S_exit == <<"e", "x", "i", "t">>
S_quit == <<"q", "u", "i", "t">>
S_eq == <<"=">>
S_eqb == <<"=", "b">>
S_tilde == <<"~">>
S_dot == <<".">>
S_dotdot == <<".", ".">>
S_dash == <<"-">>
S_a == <<"a">>
S_b == <<"b">>
S_X == <<"X">>
S_f == <<"/", "f">>
S_g == <<"/", "g">>
S_d == <<"d">>
S_nx == <<"n", "x">>
S_ls == <<"l", "s">>
S_OLDPWD == <<"O", "L", "D", "P", "W", "D">>
S_HOME == <<"H", "O", "M", "E">>

\* The file system the shell runs in: three directories, the variables the
\* model tracks, two regular files (named by absolute path) and the one
\* program execvp finds.
D_root == <<"/">>
D_d == <<"/", "d">>
D_h == <<"/", "h">>
Dirs == {D_root, D_d, D_h}
EnvNames == {S_OLDPWD, S_HOME, S_X}
Programs == {S_ls}

Join(cwd, p) == IF p # <<>> /\ p[1] = "/" THEN p
                ELSE IF cwd = D_root THEN cwd \o p
                ELSE cwd \o <<"/">> \o p

FilePaths == {S_f, S_g}

\* What a path names, resolved against the working directory.
Resolve(cwd, p) == IF p = S_dot THEN cwd
                   ELSE IF p = S_dotdot THEN D_root
                   ELSE Join(cwd, p)

\* chdir(2): the new working directory, NULL when the call fails (a NULL or
\* empty path, a path that names no directory).
chdir(cwd, path) ==
    IF path = NULL \/ path[1] = <<>> THEN NULL
    ELSE IF Resolve(cwd, path[1]) \in Dirs THEN Ptr(Resolve(cwd, path[1]))
    ELSE NULL

\* access(path, F_OK) == 0: the path names a directory or an existing file.
access(cwd, files, path) ==
    \/ path # <<>> /\ Resolve(cwd, path) \in Dirs
    \/ path # <<>> /\ Resolve(cwd, path) \in FilePaths
                   /\ files[Resolve(cwd, path)] # "absent"

getenv(env, name) == IF name \in DOMAIN env THEN env[name] ELSE NULL

\* setenv(name, value, 1).
setenv(env, name, value) == [env EXCEPT ![name] = Ptr(value)]

----------------------------------------------------------------------------
\* DIE(FAILURE_CODE, msg) of utils.h: the error is reported; a resource
\* error aborts the process, a user error returns control to the code
\* after the macro.
DIE(class) == class = "resource"

----------------------------------------------------------------------------
\* Word resolver.

word(s, e) == [string |-> Ptr(s), expand |-> e]
lit(s) == <<word(s, FALSE)>>

\* expand_token without the lookup of lines 75-82.
expand_token_literal(w, env) == w.string[1]

expand_token(w, env) ==
    IF w.expand
    THEN IF getenv(env, w.string[1]) = NULL THEN <<>>
         ELSE getenv(env, w.string[1])[1]
    ELSE w.string[1]

RECURSIVE strcat_parts(_, _)
strcat_parts(token, env) ==
    IF token = <<>> THEN <<>>
    ELSE expand_token(Head(token), env) \o strcat_parts(Tail(token), env)

token_to_string(token, env) ==
    IF token = NULL THEN NULL
    ELSE Ptr(expand_token(Head(token), env) \o strcat_parts(Tail(token), env))

----------------------------------------------------------------------------
\* Descriptors.  A descriptor table maps each open descriptor to the open
\* file it refers to; ofd tells which open(2) call of manage_redirections
\* created that open file (0: inherited by the shell).

STDIN_FILENO == 0
STDOUT_FILENO == 1
STDERR_FILENO == 2

Tty == [kind |-> "tty", path |-> <<>>, mode |-> "inherited", ofd |-> 0]
OpenFile(abs, mode, ofd) == [kind |-> "file", path |-> abs, mode |-> mode, ofd |-> ofd]

\* The lowest descriptor that is not open, as open(2) and dup(2) return it.
LowestFree(fdt) ==
    CHOOSE n \in 0..Cardinality(DOMAIN fdt) :
        n \notin DOMAIN fdt /\ \A m \in 0..(n - 1) : m \in DOMAIN fdt

dup(fdt, fd) == [n \in DOMAIN fdt \cup {LowestFree(fdt)} |->
                    IF n \in DOMAIN fdt THEN fdt[n] ELSE fdt[fd]]

dup2(fdt, fd, newfd) == [n \in DOMAIN fdt \cup {newfd} |->
                            IF n = newfd THEN fdt[fd] ELSE fdt[n]]

\* A close that leaves the descriptor open.
close_nothing(fdt, fd) == fdt

\* close(fd); closing -1 (a failed open) closes nothing.
close(fdt, fd) == [n \in DOMAIN fdt \ {fd} |-> fdt[n]]

\* Whether open(path, flags) succeeds.  O_RDONLY needs an existing file or
\* directory; O_WRONLY | O_CREAT needs a path that is not empty and names
\* no directory (the model's regular files are FilePaths).
open_ok(cwd, files, path, mode) ==
    IF mode = "O_RDONLY" THEN access(cwd, files, path)
    ELSE path # <<>> /\ Resolve(cwd, path) \in FilePaths

\* The files after a successful open: O_CREAT creates an absent file,
\* O_TRUNC empties it, O_APPEND and O_RDONLY keep its content.
open_files(cwd, files, path, mode) ==
    IF mode = "O_RDONLY" \/ Resolve(cwd, path) \notin FilePaths THEN files
    ELSE [files EXCEPT ![Resolve(cwd, path)] =
             IF mode = "O_TRUNC" \/ @ = "absent" THEN "empty" ELSE @]

----------------------------------------------------------------------------
\* Redirection manager.  st is [fdt, files, success, aborted, opens]; opens
\* lists the open(2) calls made, in order.

\* The descriptor table after open returned fd for file, dup2 bound the
\* descriptors of targets to it, and close(fd).
open_dup2_close(fdt, fd, file, targets) ==
    [n \in (DOMAIN fdt \cup targets) \ {fd} |->
        IF n \in targets THEN file ELSE fdt[n]]

\* One of the four blocks of manage_redirections: open val with mode, bind
\* the descriptors of targets to it with dup2, close the opened descriptor.
\* A failed open is reported with DIE and clears success.
redirect(st, cwd, present, val, mode, targets, ofd) ==
    IF st.aborted \/ ~present THEN st
    ELSE IF ~open_ok(cwd, st.files, val, mode)
    THEN [st EXCEPT !.success = FALSE,
                    !.aborted = DIE("user"),
                    !.opens = Append(@, [path |-> val, mode |-> mode, ok |-> FALSE])]
    ELSE [st EXCEPT !.fdt = open_dup2_close(@, LowestFree(@),
                                OpenFile(Resolve(cwd, val), mode, ofd), targets),
                    !.files = open_files(cwd, @, val, mode),
                    !.opens = Append(@, [path |-> val, mode |-> mode, ok |-> TRUE])]

\* The open mode of the output and error blocks (lines 161-165, 181-185).
out_mode(io_flags) == IF io_flags # 0 THEN "O_APPEND" ELSE "O_TRUNC"

\* The open mode of the combined block (line 199).
combined_mode(io_flags) == "O_TRUNC"

\* The string a resolved chain points to (the empty string for NULL, which
\* no block reads).
str(val) == IF val = NULL THEN <<>> ELSE val[1]

\* The four blocks of manage_redirections (lines 144-209), on the resolved
\* names in_val, out_val and err_val.
redirect_all(s, fdt, files, cwd, in_val, out_val, err_val) ==
    redirect(
        redirect(
            redirect(
                redirect([fdt |-> fdt, files |-> files, success |-> TRUE,
                          aborted |-> FALSE, opens |-> <<>>],
                         cwd, s.in # NULL /\ in_val # NULL, str(in_val),
                         "O_RDONLY", {STDIN_FILENO}, 1),
                cwd, s.out # NULL /\ out_val # NULL, str(out_val),
                out_mode(s.io_flags), {STDOUT_FILENO}, 2),
            cwd, s.err # NULL /\ err_val # NULL, str(err_val),
            out_mode(s.io_flags), {STDERR_FILENO}, 3),
        cwd, s.out # NULL /\ s.err # NULL /\ out_val = err_val, str(out_val),
        combined_mode(s.io_flags), {STDOUT_FILENO, STDERR_FILENO}, 4)

manage_redirections(s, fdt, files, cwd, env) ==
    redirect_all(s, fdt, files, cwd, token_to_string(s.in, env),
                 token_to_string(s.out, env), token_to_string(s.err, env))

----------------------------------------------------------------------------
\* Builtin dispatcher.

\* The bool a function declared bool returns for `return chdir(...)`: the
\* int 0 (the call succeeded) converts to false, -1 to true.
chdir_as_bool(newcwd) == newcwd = NULL

\* The result of shell_cd after chdir(target) returned newcwd (NULL: failed).
cd_result(newcwd, cwd, env1) ==
    [ret |-> chdir_as_bool(newcwd),
     cwd |-> IF newcwd = NULL THEN cwd ELSE newcwd[1],
     env |-> env1, aborted |-> FALSE]

\* The branches of shell_cd after line 33 stored the current directory in
\* OLDPWD (env1 is the environment then); arg is dir->string.
shell_cd_branch(dir, arg, cwd, files, env1) ==
    IF dir = NULL \/ arg = <<>> \/ arg = S_tilde
    THEN cd_result(chdir(cwd, getenv(env1, S_HOME)), cwd, env1)
    ELSE IF arg = S_dotdot THEN cd_result(chdir(cwd, Ptr(S_dotdot)), cwd, env1)
    ELSE IF arg = S_dot
    THEN [ret |-> TRUE, cwd |-> cwd, env |-> env1, aborted |-> FALSE]
    ELSE IF arg = S_dash
    THEN IF getenv(env1, S_OLDPWD) = NULL
         THEN [ret |-> FALSE, cwd |-> cwd, env |-> env1, aborted |-> DIE("user")]
         ELSE cd_result(chdir(cwd, getenv(env1, S_OLDPWD)), cwd, env1)
    ELSE IF access(cwd, files, arg) THEN cd_result(chdir(cwd, Ptr(arg)), cwd, env1)
    ELSE [ret |-> TRUE, cwd |-> cwd, env |-> env1, aborted |-> FALSE]

\* shell_cd(dir): [ret, cwd, env, aborted].
shell_cd(dir, cwd, files, env) ==
    shell_cd_branch(dir, IF dir = NULL THEN <<>> ELSE dir[1].string[1],
                    cwd, files, setenv(env, S_OLDPWD, cwd))

\* The int execute_cd returns for the bool cd_result (line 246).
bool_as_int(b) == IF b THEN 1 ELSE 0

\* Whether execute_cd returns before shell_cd (lines 230-233).
cd_returns_early(success) == ~success

\* execute_cd after shell_cd returned cd: standard output is restored from
\* original and original is closed (lines 237-246).
execute_cd_restore(r, original, cd) ==
    [status |-> bool_as_int(cd.ret),
     fdt |-> close(dup2(r.fdt, original, STDOUT_FILENO), original),
     files |-> r.files, cwd |-> cd.cwd, env |-> cd.env,
     aborted |-> cd.aborted, opens |-> r.opens]

\* execute_cd after manage_redirections returned r (lines 230-246).
execute_cd_redirected(s, cwd, env, original, r) ==
    IF r.aborted \/ cd_returns_early(r.success)
    THEN [status |-> FAILURE_CODE,
          fdt |-> IF r.aborted THEN r.fdt ELSE close(r.fdt, original),
          files |-> r.files, cwd |-> cwd, env |-> env,
          aborted |-> r.aborted, opens |-> r.opens]
    ELSE execute_cd_restore(r, original, shell_cd(s.params, cwd, r.files, env))

\* execute_cd(s): [status, fdt, files, cwd, env, aborted, opens].
execute_cd(s, fdt, files, cwd, env, dup_fails) ==
    IF dup_fails
    THEN [status |-> FAILURE_CODE, fdt |-> fdt, files |-> files, cwd |-> cwd,
          env |-> env, aborted |-> DIE("resource"), opens |-> <<>>]
    ELSE execute_cd_redirected(s, cwd, env, LowestFree(fdt),
             manage_redirections(s, dup(fdt, STDOUT_FILENO), files, cwd, env))

\* exit(SUCCESS_CODE) of shell_exit: the status the process ends with.
shell_exit == SUCCESS_CODE

\* Whether parse_simple takes the leaf for an assignment (line 319).
is_assignment(verb) ==
    /\ verb # NULL
    /\ Len(verb) >= 2
    /\ verb[2].string # NULL
    /\ verb[2].string[1] # <<>>
    /\ verb[2].string[1][1] = "="

\* execute_env_var_assignment(s): [status, env, crashed, aborted].  setenv
\* fails for an empty name.  With no third fragment token_to_string returns
\* NULL and setenv(var, NULL, 1) is undefined: ub chooses between the
\* process dying and the variable being set to the empty string.
assign(var, new_value, env, ub) ==
    IF var = <<>>
    THEN [status |-> FAILURE_CODE, env |-> env, crashed |-> FALSE,
          aborted |-> DIE("user")]
    ELSE IF new_value = NULL
    THEN [status |-> SUCCESS_CODE,
          env |-> IF ub = "segv" THEN env ELSE setenv(env, var, <<>>),
          crashed |-> ub = "segv", aborted |-> FALSE]
    ELSE [status |-> SUCCESS_CODE, env |-> setenv(env, var, new_value[1]),
          crashed |-> FALSE, aborted |-> FALSE]

execute_env_var_assignment(s, env, ub) ==
    assign(s.verb[1].string[1],
           token_to_string(SubSeq(s.verb, 3, Len(s.verb)), env), env, ub)

----------------------------------------------------------------------------
\* External process launcher.

\* get_word(s->verb) of utils: the verb chain resolved to the program path.
get_word(verb, env) == token_to_string(verb, env)[1]

\* The ways a program that execvp loaded may end.
Outcomes == {[exited |-> TRUE, code |-> c] : c \in {0, 2}}
            \cup {[exited |-> FALSE, code |-> 0]}

\* The status the parent returns after waitpid (lines 275-279).
wait_status(outcome) == IF outcome.exited THEN outcome.code ELSE SUCCESS_CODE

\* How the child ends: manage_redirections returned r in it, then execvp
\* loads command_path or fails (lines 263-269).
child_ends(r, command_path, outcome) ==
    IF r.aborted \/ ~r.success THEN [exited |-> TRUE, code |-> FAILURE_CODE]
    ELSE IF command_path \notin Programs THEN [exited |-> TRUE, code |-> FAILURE_CODE]
    ELSE outcome

\* A child that rebinds the descriptors of the process that created it.
after_fork_shared(parent, child) == child

\* The parent's descriptor table after the child it forked (line 254) left
\* its own copy of the table as child: the parent's table is untouched.
after_fork(parent, child) == parent

\* The parent, whose descriptor table is fdt, after the child, in which
\* manage_redirections returned r, has ended (lines 271-279).
launched(fdt, r, command_path, outcome) ==
    [status |-> wait_status(child_ends(r, command_path, outcome)),
     fdt |-> after_fork(fdt, r.fdt),
     files |-> r.files, forked |-> 1, aborted |-> FALSE, opens |-> r.opens,
     child |-> Ptr(child_ends(r, command_path, outcome))]

\* execute_external_command(s): [status, fdt, files, forked, aborted, opens,
\* child]; child is how the child process ended, NULL when none was created.
\* The child works on a copy of the shell's descriptor table; the files it
\* opens are the shell's files.  outcome is how the loaded program ends.
execute_external_command(s, fdt, files, cwd, env, fork_fails, outcome) ==
    IF fork_fails
    THEN [status |-> SUCCESS_CODE, fdt |-> fdt, files |-> files, forked |-> 0,
          aborted |-> DIE("resource"), opens |-> <<>>, child |-> NULL]
    ELSE launched(fdt, manage_redirections(s, fdt, files, cwd, env),
                  get_word(s.verb, env), outcome)

\* parse_simple without the comparison with "quit" of line 314.
parse_simple_case_no_quit(sp) ==
    IF sp = NULL \/ sp[1].verb = NULL \/ sp[1].verb[1].string = NULL
        THEN "malformed"
    ELSE IF sp[1].verb[1].string[1] = S_cd THEN "cd"
    ELSE IF sp[1].verb[1].string[1] = S_exit THEN "exit"
    ELSE IF is_assignment(sp[1].verb) THEN "assignment"
    ELSE "external"

\* Which branch of parse_simple a leaf takes (lines 307-323); sp is the
\* pointer c->scmd.
parse_simple_case(sp) ==
    IF sp = NULL \/ sp[1].verb = NULL \/ sp[1].verb[1].string = NULL
        THEN "malformed"
    ELSE IF sp[1].verb[1].string[1] = S_cd THEN "cd"
    ELSE IF sp[1].verb[1].string[1] \in {S_exit, S_quit} THEN "exit"
    ELSE IF is_assignment(sp[1].verb) THEN "assignment"
    ELSE "external"

----------------------------------------------------------------------------
\* Inputs.  The operator tree is fixed when evaluation starts; what a
\* terminal position holds (a NULL command, or a leaf and its simple
\* command) is read when parse_command reaches it, which happens at most
\* once for each position.

Ops == {"OP_SEQUENTIAL", "OP_PARALLEL", "OP_CONDITIONAL_NZERO",
        "OP_CONDITIONAL_ZERO", "OP_PIPE", "OP_DUMMY"}

Terminal == [op |-> "OP_NONE"]

RECURSIVE Trees(_)
Trees(n) ==
    IF n = 0 THEN {Terminal}
    ELSE Trees(n - 1) \cup
         UNION {{[op |-> o, cmd1 |-> a, cmd2 |-> b] :
                    o \in Ops, a \in Trees(k), b \in Trees(n - 1 - k)} :
                k \in 0..(n - 1)}

RECURSIVE Sub(_, _)
Sub(t, path) == IF path = <<>> THEN t
                ELSE Sub(IF Head(path) = 1 THEN t.cmd1 ELSE t.cmd2, Tail(path))

RECURSIVE Nodes(_)
Nodes(t) == IF t.op = "OP_NONE" THEN {<<>>}
            ELSE {<<>>} \cup {<<1>> \o q : q \in Nodes(t.cmd1)}
                        \cup {<<2>> \o q : q \in Nodes(t.cmd2)}

scmd(verb, params, in, out, err, io_flags) ==
    [verb |-> verb, params |-> params, in |-> in, out |-> out, err |-> err,
     io_flags |-> io_flags]

\* Redirections of a simple command: <<in, out, err, io_flags>>.
NoRedir == <<NULL, NULL, NULL, 0>>
CdRedirs == {<<lit(S_f), NULL, NULL, 0>>,
             <<lit(S_g), NULL, NULL, 0>>,
             <<NULL, lit(S_f), NULL, 1>>,
             <<NULL, NULL, lit(S_g), 0>>}
Redirs == {NoRedir,
           <<lit(S_g), NULL, NULL, 0>>,
           <<NULL, lit(S_f), NULL, 0>>,
           <<NULL, lit(S_empty), NULL, 0>>,
           <<NULL, lit(S_f), lit(S_g), 1>>,
           <<NULL, lit(S_f), lit(S_f), 0>>,
           <<NULL, lit(S_f), lit(S_f), 1>>}

CdParams == {NULL, lit(S_empty), lit(S_tilde), lit(S_dotdot), lit(S_dot),
             lit(S_dash), lit(S_d), lit(S_nx), lit(S_f)}

AssignmentVerbs ==
    {<<word(S_X, FALSE), word(S_eq, FALSE), word(S_a, FALSE)>>,
     <<word(S_X, FALSE), word(S_eq, FALSE), word(S_b, FALSE)>>,
     <<word(S_X, FALSE), word(S_eqb, FALSE), word(S_a, FALSE)>>,
     <<word(S_X, FALSE), word(S_eq, FALSE)>>,
     <<word(S_empty, FALSE), word(S_eq, FALSE), word(S_a, FALSE)>>,
     <<word(S_X, FALSE), word(S_eq, FALSE), word(S_f, FALSE)>>,
     <<word(S_X, FALSE), word(S_eq, FALSE), word(S_X, TRUE), word(S_b, FALSE)>>}

SimpleCommands ==
    {scmd(lit(S_cd), p, NULL, NULL, NULL, 0) : p \in CdParams}
    \cup {scmd(lit(S_cd), lit(S_d), r[1], r[2], r[3], r[4]) : r \in CdRedirs}
    \cup {scmd(lit(S_ls), NULL, r[1], r[2], r[3], r[4]) : r \in Redirs}
    \cup {scmd(v, NULL, NULL, r, NULL, 0) :
             v \in {lit(S_nx), lit(S_empty)}, r \in {NULL, lit(S_g)}}
    \cup {scmd(lit(S_ls), NULL, <<word(S_X, TRUE)>>, NULL, NULL, 0)}
    \cup {scmd(v, NULL, NULL, NULL, NULL, 0) :
             v \in AssignmentVerbs \cup {lit(S_exit), lit(S_quit), NULL,
                                         <<[string |-> NULL, expand |-> FALSE]>>}}

SCmdPtrs == {NULL} \cup {Ptr(s) : s \in SimpleCommands}

\* A small script vocabulary: one leaf of each kind parse_simple tells apart.
TreeCommands ==
    {scmd(v, NULL, NULL, NULL, NULL, 0) :
        v \in {lit(S_ls), lit(S_exit), lit(S_quit), NULL,
               <<word(S_X, FALSE), word(S_eq, FALSE), word(S_a, FALSE)>>}}
    \cup {scmd(lit(S_cd), lit(S_dot), NULL, NULL, NULL, 0)}

TreeCmdPtrs == {Ptr(s) : s \in TreeCommands}

----------------------------------------------------------------------------
\* State.
VARIABLES
    tree,      \* the operator tree under evaluation
    stack,     \* the active calls of parse_command: [path, pc], innermost last
    rv,        \* the status the last call of parse_command returned
    proc,      \* "running", "returned", or how the shell process ended
    exitcode,  \* the status the shell process ended with
    cwd,       \* the shell's working directory
    env,       \* the shell's environment
    fdt,       \* the shell's descriptor table
    files,     \* content of the regular files: "absent", "empty", "data"
    nchild,    \* child processes created so far
    nwaited,   \* child processes waitpid has returned the status of
    evals,     \* how often parse_command was called on each node
    ret,       \* the status parse_command returned for each node, NULL if none
    last,      \* the last terminal evaluated: what it held and the state before
    assigned   \* what the assignment leaves evaluated so far gave each variable

vars == <<tree, stack, rv, proc, exitcode, cwd, env, fdt, files, nchild,
          nwaited, evals, ret, last, assigned>>

\* The environment the shell starts with.
environ == [n \in EnvNames |-> IF n = S_HOME THEN Ptr(D_h) ELSE NULL]

\* The string a chain of fragments denotes when each expandable fragment
\* stands for value[its name].
RECURSIVE Denotes(_, _)
Denotes(chain, value) ==
    IF chain = <<>> THEN <<>>
    ELSE (IF Head(chain).expand THEN value[Head(chain).string[1]]
          ELSE Head(chain).string[1]) \o Denotes(Tail(chain), value)

\* The value each variable has according to the assignments evaluated so
\* far: the latest value assigned, else its value in environ, the empty
\* string when it has none.
ValueOf(h) ==
    [n \in EnvNames |-> IF h[n].state = "assigned" THEN h[n].value
                        ELSE IF environ[n] = NULL THEN <<>> ELSE environ[n][1]]

\* assigned after a leaf that parse_simple handled as kind has ended: an
\* assignment name = value... that returned success gives name the string its
\* value chain denotes; one with no value fragment leaves it undefined.
Assigned(h, kind, sp, status, end) ==
    IF kind # "assignment" \/ end # "return" \/ status # SUCCESS_CODE THEN h
    ELSE IF Len(sp[1].verb) < 3
    THEN [h EXCEPT ![sp[1].verb[1].string[1]] =
             [state |-> "undefined", value |-> <<>>]]
    ELSE [h EXCEPT ![sp[1].verb[1].string[1]] =
             [state |-> "assigned",
              value |-> Denotes(SubSeq(sp[1].verb, 3, Len(sp[1].verb)), ValueOf(h))]]

NoLeaf == [path |-> <<>>, kind |-> "none", scmd |-> NULL, status |-> 0,
           cwd |-> D_root, env |-> [n \in EnvNames |-> NULL],
           fdt |-> [n \in {} |-> Tty], forked |-> 0, opens |-> <<>>,
           child |-> NULL, files |-> [q \in FilePaths |-> "absent"]]

\* The state when the top-level call of parse_command starts on a tree.
Start ==
    /\ stack = <<[path |-> <<>>, pc |-> "start"]>>
    /\ rv = 0
    /\ proc = "running"
    /\ exitcode = 0
    /\ cwd = D_root
    /\ env = environ
    /\ fdt = [n \in {STDIN_FILENO, STDOUT_FILENO, STDERR_FILENO} |-> Tty]
    /\ files = [q \in FilePaths |-> IF q = S_f THEN "data" ELSE "absent"]
    /\ nchild = 0
    /\ nwaited = 0
    /\ evals = [q \in Nodes(tree) |-> IF q = <<>> THEN 1 ELSE 0]
    /\ ret = [q \in Nodes(tree) |-> NULL]
    /\ last = NoLeaf
    /\ assigned = [n \in EnvNames |-> [state |-> "initial", value |-> <<>>]]

Init == tree \in Trees(MaxOps) /\ Start

InitTree == tree \in Trees(MaxTreeOps) /\ Start

Top == stack[Len(stack)]
Node == Sub(tree, Top.path)
At(op, pc) == proc = "running" /\ Node.op = op /\ Top.pc = pc

\* parse_command(child, ...) called from the innermost call, which resumes
\* at pc when the child returns.
Call(which, pc) ==
    /\ stack' = [stack EXCEPT ![Len(stack)].pc = pc]
                    \o <<[path |-> Top.path \o <<which>>, pc |-> "start"]>>
    /\ evals' = [evals EXCEPT ![Top.path \o <<which>>] = @ + 1]
    /\ UNCHANGED <<tree, rv, proc, exitcode, cwd, env, fdt, files, nchild,
                   nwaited, ret, last, assigned>>

\* The innermost call returns status; the outermost return ends evaluation.
Return(status) ==
    /\ stack' = SubSeq(stack, 1, Len(stack) - 1)
    /\ rv' = status
    /\ ret' = [ret EXCEPT ![Top.path] = Ptr(status)]
    /\ proc' = IF Len(stack) = 1 THEN "returned" ELSE proc

ReturnOp(status) ==
    /\ Return(status)
    /\ UNCHANGED <<tree, exitcode, cwd, env, fdt, files, nchild, nwaited,
                   evals, last, assigned>>

----------------------------------------------------------------------------
\* Operator evaluator: parse_command on an internal node.

\* A sequence node that returns the status of its first branch.
sequential_status_first(r1, r2) == r1

\* The status a sequence node returns, from its branches' statuses (line 364).
sequential_status(r1, r2) == r2

\* The test of line 370 inverted.
nzero_returns_early_inverted(r1) == r1 # 0

\* Whether OP_CONDITIONAL_NZERO returns without evaluating cmd2 (line 370).
nzero_returns_early(r1) == r1 = 0

\* The test of line 375 inverted.
zero_returns_early_inverted(r1) == r1 = 0

\* Whether OP_CONDITIONAL_ZERO returns without evaluating cmd2 (line 375).
zero_returns_early(r1) == r1 # 0

\* run_in_parallel and run_on_pipe evaluate neither command and return true.
run_in_parallel == TRUE
run_on_pipe == TRUE

Sequential_cmd1 == At("OP_SEQUENTIAL", "start") /\ Call(1, "cmd1")

Sequential_cmd2 == At("OP_SEQUENTIAL", "cmd1") /\ Call(2, "cmd2")

Sequential_return ==
    /\ At("OP_SEQUENTIAL", "cmd2")
    /\ ReturnOp(sequential_status(ret[Top.path \o <<1>>][1], rv))

Parallel ==
    /\ At("OP_PARALLEL", "start")
    /\ ReturnOp(bool_as_int(run_in_parallel))

NZero_cmd1 == At("OP_CONDITIONAL_NZERO", "start") /\ Call(1, "cmd1")

NZero_short_circuit ==
    /\ At("OP_CONDITIONAL_NZERO", "cmd1")
    /\ nzero_returns_early(rv)
    /\ ReturnOp(SUCCESS_CODE)

NZero_cmd2 ==
    /\ At("OP_CONDITIONAL_NZERO", "cmd1")
    /\ ~nzero_returns_early(rv)
    /\ Call(2, "cmd2")

NZero_return == At("OP_CONDITIONAL_NZERO", "cmd2") /\ ReturnOp(rv)

Zero_cmd1 == At("OP_CONDITIONAL_ZERO", "start") /\ Call(1, "cmd1")

Zero_short_circuit ==
    /\ At("OP_CONDITIONAL_ZERO", "cmd1")
    /\ zero_returns_early(rv)
    /\ ReturnOp(SUCCESS_CODE)

Zero_cmd2 ==
    /\ At("OP_CONDITIONAL_ZERO", "cmd1")
    /\ ~zero_returns_early(rv)
    /\ Call(2, "cmd2")

Zero_return == At("OP_CONDITIONAL_ZERO", "cmd2") /\ ReturnOp(rv)

Pipe ==
    /\ At("OP_PIPE", "start")
    /\ ReturnOp(bool_as_int(run_on_pipe))

UnknownOp ==
    /\ proc = "running"
    /\ Node.op \notin {"OP_NONE", "OP_SEQUENTIAL", "OP_PARALLEL",
                       "OP_CONDITIONAL_NZERO", "OP_CONDITIONAL_ZERO", "OP_PIPE"}
    /\ ReturnOp(SHELL_EXIT)

----------------------------------------------------------------------------
\* Operator evaluator: parse_command on a terminal position.

\* The evaluation of a terminal ends: by returning status to the caller, or
\* with the shell process gone (end is "exited", "aborted" or "crashed").
LeafEnded(kind, sp, status, ncwd, nenv, nfdt, nfiles, forked, opens, end, child) ==
    /\ last' = [path |-> Top.path, kind |-> kind, scmd |-> sp, status |-> status,
                cwd |-> cwd, env |-> env, fdt |-> fdt, forked |-> forked,
                opens |-> opens, child |-> child, files |-> files]
    /\ cwd' = ncwd
    /\ env' = nenv
    /\ fdt' = nfdt
    /\ files' = nfiles
    /\ nchild' = nchild + forked
    /\ nwaited' = nwaited + (IF child = NULL THEN 0 ELSE 1)
    /\ assigned' = Assigned(assigned, kind, sp, status, end)
    /\ IF end = "return"
       THEN Return(status) /\ exitcode' = exitcode
       ELSE /\ proc' = end
            /\ exitcode' = status
            /\ UNCHANGED <<stack, rv, ret>>
    /\ UNCHANGED <<tree, evals>>

\* The same for a leaf that created no child process.
LeafDone(kind, sp, status, ncwd, nenv, nfdt, nfiles, forked, opens, end) ==
    LeafEnded(kind, sp, status, ncwd, nenv, nfdt, nfiles, forked, opens, end,
              NULL)

\* c == NULL (line 354).
NullCommand ==
    /\ At("OP_NONE", "start")
    /\ LeafDone("null_command", NULL, FAILURE_CODE, cwd, env, fdt, files, 0,
                <<>>, "return")

Leaf_malformed(cmds) ==
    /\ At("OP_NONE", "start")
    /\ \E sp \in cmds :
        /\ parse_simple_case(sp) = "malformed"
        /\ LeafDone("malformed", sp, FAILURE_CODE, cwd, env, fdt, files, 0,
                    <<>>, "return")

Ended(r) == IF r.aborted THEN "aborted" ELSE "return"

Leaf_cd_done(sp, r) ==
    LeafDone("cd", sp, r.status, r.cwd, r.env, r.fdt, r.files, 0, r.opens,
             Ended(r))

Leaf_cd(cmds) ==
    /\ At("OP_NONE", "start")
    /\ \E sp \in cmds, dup_fails \in BOOLEAN :
        /\ parse_simple_case(sp) = "cd"
        /\ Leaf_cd_done(sp, execute_cd(sp[1], fdt, files, cwd, env, dup_fails))

Leaf_exit(cmds) ==
    /\ At("OP_NONE", "start")
    /\ \E sp \in cmds :
        /\ parse_simple_case(sp) = "exit"
        /\ LeafDone("exit", sp, shell_exit, cwd, env, fdt, files, 0, <<>>,
                    "exited")

Leaf_assignment_done(sp, r) ==
    LeafDone("assignment", sp, r.status, cwd, r.env, fdt, files, 0, <<>>,
             IF r.crashed THEN "crashed" ELSE Ended(r))

Leaf_assignment(cmds) ==
    /\ At("OP_NONE", "start")
    /\ \E sp \in cmds, ub \in {"segv", "empty"} :
        /\ parse_simple_case(sp) = "assignment"
        /\ Leaf_assignment_done(sp, execute_env_var_assignment(sp[1], env, ub))

Leaf_external_done(sp, r) ==
    LeafEnded("external", sp, r.status, cwd, env, r.fdt, r.files, r.forked,
              r.opens, Ended(r), r.child)

Leaf_external(cmds) ==
    /\ At("OP_NONE", "start")
    /\ \E sp \in cmds, fork_fails \in BOOLEAN, outcome \in Outcomes :
        /\ parse_simple_case(sp) = "external"
        /\ Leaf_external_done(sp, execute_external_command(sp[1], fdt, files,
                                      cwd, env, fork_fails, outcome))

\* One step of the evaluation of a tree whose leaves hold commands of cmds.
Evaluate(cmds) ==
    \/ Sequential_cmd1 \/ Sequential_cmd2 \/ Sequential_return
    \/ Parallel
    \/ NZero_cmd1 \/ NZero_short_circuit \/ NZero_cmd2 \/ NZero_return
    \/ Zero_cmd1 \/ Zero_short_circuit \/ Zero_cmd2 \/ Zero_return
    \/ Pipe
    \/ UnknownOp
    \/ NullCommand \/ Leaf_malformed(cmds) \/ Leaf_cd(cmds) \/ Leaf_exit(cmds)
    \/ Leaf_assignment(cmds) \/ Leaf_external(cmds)

Next == Evaluate(SCmdPtrs)

NextTree == Evaluate(TreeCmdPtrs)

Spec == Init /\ [][Next]_vars

\* The evaluation of larger trees over the vocabulary TreeCommands.
SpecTree == InitTree /\ [][NextTree]_vars

----------------------------------------------------------------------------
\* Properties.

OpNodes(o) == {p \in Nodes(tree) : Sub(tree, p).op = o}
Returned(p) == ret[p] # NULL
Left(p) == p \o <<1>>
Right(p) == p \o <<2>>

\* The last terminal evaluated was a leaf and parse_simple returned to the
\* evaluator (the shell process did not end in it).
LeafReturned == /\ last.kind \notin {"none", "null_command"}
                /\ ret[last.path] # NULL

\* C1: for every sequence node A ; B, each branch is evaluated at most once,
\* B only after A has returned, and whatever A returned the evaluator goes on
\* to B; when the node returns, both branches have been evaluated exactly
\* once and the node's status is B's status.
C1_Sequence ==
    \A p \in OpNodes("OP_SEQUENTIAL") :
        /\ evals[Left(p)] <= 1 /\ evals[Right(p)] <= 1
        /\ evals[Right(p)] = 1 => Returned(Left(p))
        /\ (proc = "running" /\ Returned(Left(p)) /\ evals[Right(p)] = 0)
              => ENABLED Sequential_cmd2 /\ ~ENABLED Sequential_return
        /\ Returned(p) =>
              /\ evals[Left(p)] = 1 /\ evals[Right(p)] = 1
              /\ Returned(Left(p)) /\ Returned(Right(p))
              /\ ret[p] = ret[Right(p)]

\* A sequence node has returned whose left branch failed and whose right
\* branch succeeded.
C1_Witness ==
    \E p \in OpNodes("OP_SEQUENTIAL") :
        /\ Returned(p) /\ Returned(Left(p)) /\ Returned(Right(p))
        /\ ret[Left(p)][1] # 0 /\ ret[Right(p)][1] = 0 /\ ret[p][1] = 0

\* C2: for every OR node A || B, B is evaluated at most once and only after A
\* returned a nonzero status; when the node returns, A was evaluated once,
\* and either A returned 0, B was never evaluated and the node's status is
\* success, or A returned nonzero, B was evaluated once and the node's status
\* is B's status.
C2_Or ==
    \A p \in OpNodes("OP_CONDITIONAL_NZERO") :
        /\ evals[Left(p)] <= 1 /\ evals[Right(p)] <= 1
        /\ evals[Right(p)] = 1 => Returned(Left(p)) /\ ret[Left(p)][1] # 0
        /\ Returned(p) =>
              /\ evals[Left(p)] = 1 /\ Returned(Left(p))
              /\ IF ret[Left(p)][1] = 0
                 THEN evals[Right(p)] = 0 /\ ret[p] = Ptr(SUCCESS_CODE)
                 ELSE /\ evals[Right(p)] = 1 /\ Returned(Right(p))
                      /\ ret[p] = ret[Right(p)]

\* Two OR nodes have returned: one short-circuited, the other evaluated its
\* right branch after its left branch failed.
C2_Witness ==
    \E p, q \in OpNodes("OP_CONDITIONAL_NZERO") :
        /\ Returned(p) /\ ret[Left(p)][1] = 0 /\ evals[Right(p)] = 0
        /\ Returned(q) /\ ret[Left(q)][1] # 0 /\ evals[Right(q)] = 1
        /\ ret[q] = ret[Right(q)]

\* C3: for every AND node A && B, B is evaluated at most once and only after
\* A returned 0; when the node returns, A was evaluated once, and either A
\* returned nonzero, B was never evaluated and the node's status is success,
\* or A returned 0, B was evaluated once and the node's status is B's status.
C3_And ==
    \A p \in OpNodes("OP_CONDITIONAL_ZERO") :
        /\ evals[Left(p)] <= 1 /\ evals[Right(p)] <= 1
        /\ evals[Right(p)] = 1 => Returned(Left(p)) /\ ret[Left(p)][1] = 0
        /\ Returned(p) =>
              /\ evals[Left(p)] = 1 /\ Returned(Left(p))
              /\ IF ret[Left(p)][1] # 0
                 THEN evals[Right(p)] = 0 /\ ret[p] = Ptr(SUCCESS_CODE)
                 ELSE /\ evals[Right(p)] = 1 /\ Returned(Right(p))
                      /\ ret[p] = ret[Right(p)]

\* Two AND nodes have returned: one whose left branch failed (right branch
\* skipped, success reported), the other evaluated its right branch, which
\* failed.
C3_Witness ==
    \E p, q \in OpNodes("OP_CONDITIONAL_ZERO") :
        /\ Returned(p) /\ ret[Left(p)][1] # 0 /\ evals[Right(p)] = 0
        /\ ret[p][1] = 0
        /\ Returned(q) /\ ret[Left(q)][1] = 0 /\ evals[Right(q)] = 1
        /\ ret[q][1] # 0

\* C4: when a pipe node A | B has returned, both branches have been evaluated
\* and have finished, and the node's status is B's status.
C4_Pipe ==
    \A p \in OpNodes("OP_PIPE") :
        Returned(p) =>
            /\ evals[Left(p)] = 1 /\ evals[Right(p)] = 1
            /\ Returned(Left(p)) /\ Returned(Right(p))
            /\ ret[p] = ret[Right(p)]

\* C5: when a parallel node A & B has returned, both branches have been
\* evaluated and have finished.
C5_Parallel ==
    \A p \in OpNodes("OP_PARALLEL") :
        Returned(p) =>
            /\ evals[Left(p)] = 1 /\ evals[Right(p)] = 1
            /\ Returned(Left(p)) /\ Returned(Right(p))

HasVerb(l, strings) ==
    /\ l.kind \notin {"none", "null_command"}
    /\ l.scmd # NULL
    /\ l.scmd[1].verb # NULL
    /\ l.scmd[1].verb[1].string # NULL
    /\ l.scmd[1].verb[1].string[1] \in strings

\* C6: once a leaf whose verb is exit or quit has been evaluated the shell
\* process has ended with the success status, that leaf never returned, and
\* nothing of the tree is evaluated afterwards (no step of the evaluator is
\* possible).
C6_Exit ==
    /\ HasVerb(last, {S_exit, S_quit}) =>
          /\ proc = "exited" /\ exitcode = SUCCESS_CODE
          /\ ret[last.path] = NULL
    /\ proc = "exited" => HasVerb(last, {S_exit, S_quit}) /\ ~ENABLED Next

\* quit was evaluated as the left branch of a sequence, AND or OR node inside
\* another node: the engine stopped and neither right branch was evaluated.
C6_Witness ==
    /\ proc = "exited"
    /\ HasVerb(last, {S_quit})
    /\ last.path = <<1, 1>>
    /\ tree.op = "OP_SEQUENTIAL"
    /\ tree.cmd1.op \in {"OP_CONDITIONAL_ZERO", "OP_CONDITIONAL_NZERO"}
    /\ evals[<<1, 2>>] = 0 /\ evals[<<2>>] = 0

\* The nodes evaluation would reach after node p if it went on: the right
\* siblings of p and of its ancestors.
RECURSIVE After(_)
After(p) ==
    IF p = <<>> THEN {}
    ELSE After(SubSeq(p, 1, Len(p) - 1))
         \cup (IF p[Len(p)] = 1 THEN {SubSeq(p, 1, Len(p) - 1) \o <<2>>} ELSE {})

\* C7: once evaluation has reached a node with an unrecognized operator tag,
\* no node after it is evaluated and the top-level call, when it returns,
\* returns SHELL_EXIT.
C7_UnknownOp ==
    \A p \in OpNodes("OP_DUMMY") :
        evals[p] > 0 =>
            /\ \A q \in After(p) : evals[q] = 0
            /\ proc = "returned" => ret[<<>>] = Ptr(SHELL_EXIT)

\* C8: a leaf whose simple command is null, whose verb is null or whose verb
\* is the empty string returns the failure status, creates no child process,
\* opens no file, and leaves the descriptor table and the environment as
\* they were.
C8_Malformed ==
    (/\ last.kind \notin {"none", "null_command"}
     /\ \/ last.scmd = NULL
        \/ last.scmd[1].verb = NULL
        \/ last.scmd[1].verb[1].string = NULL
        \/ last.scmd[1].verb[1].string[1] = <<>>)
    => /\ LeafReturned
       /\ last.status = FAILURE_CODE
       /\ last.forked = 0
       /\ last.opens = <<>>
       /\ fdt = last.fdt
       /\ env = last.env

\* C9: after a cd leaf has returned, OLDPWD is the working directory that was
\* in effect before it.
C9_Oldpwd ==
    (LeafReturned /\ HasVerb(last, {S_cd}))
        => env[S_OLDPWD] = Ptr(last.cwd)

\* C10: after cd - has returned: if OLDPWD was unset before, the status is a
\* failure and the working directory is unchanged; if OLDPWD was P, the
\* status is success, the working directory is P and OLDPWD is the previous
\* working directory.
C10_CdDash ==
    (LeafReturned /\ HasVerb(last, {S_cd}) /\ last.scmd[1].params = lit(S_dash))
        => IF last.env[S_OLDPWD] = NULL
           THEN last.status # 0 /\ cwd = last.cwd
           ELSE /\ last.status = 0
                /\ cwd = last.env[S_OLDPWD][1]
                /\ env[S_OLDPWD] = Ptr(last.cwd)

\* The first redirection chain manage_redirections opens for a command.
FirstChain(s) == IF s.in # NULL THEN s.in
                 ELSE IF s.out # NULL THEN s.out ELSE s.err

\* The last leaf returned after manage_redirections ran for it (in the
\* shell for cd, in the child for an external command).
Redirected == LeafReturned /\ last.kind \in {"cd", "external"}

\* C11: every variable that an assignment leaf X = value has set holds the
\* latest value assigned, and a redirection chain resolved afterwards
\* resolves to a string (the resolution never fails) in which each
\* expandable fragment stands for the latest value assigned to its variable,
\* the empty string when the variable is unset.
C11_Expansion ==
    /\ \A n \in EnvNames :
          assigned[n].state = "assigned" => env[n] = Ptr(assigned[n].value)
    /\ (/\ Redirected
        /\ FirstChain(last.scmd[1]) # NULL
        /\ \A n \in EnvNames : assigned[n].state # "undefined")
       => /\ last.opens # <<>>
          /\ last.opens[1].path
                = Denotes(FirstChain(last.scmd[1]), ValueOf(assigned))

\* X = /f was evaluated, then ls < $X: the child opened /f for input.
C11_Witness ==
    /\ Redirected
    /\ last.scmd[1].in = <<word(S_X, TRUE)>>
    /\ assigned[S_X] = [state |-> "assigned", value |-> S_f]
    /\ last.env[S_X] = Ptr(S_f)
    /\ last.opens = <<[path |-> S_f, mode |-> "O_RDONLY", ok |-> TRUE]>>

\* C12: the status the launcher returns for a child that exited normally is
\* the child's exit code, and for a child that ended abnormally it is the
\* failure status, which is not 0.
C12_Launcher ==
    (LeafReturned /\ last.kind = "external" /\ last.child # NULL)
        => IF last.child[1].exited
           THEN last.status = last.child[1].code
           ELSE last.status = FAILURE_CODE /\ last.status # 0

StandardStreams == {STDIN_FILENO, STDOUT_FILENO, STDERR_FILENO}

\* C13: after a leaf has returned to the evaluator, the shell's standard
\* input, standard output and standard error are bound to the targets they
\* were bound to before the leaf was evaluated.
C13_StreamsRestored ==
    LeafReturned =>
        \A n \in StandardStreams : n \in DOMAIN fdt /\ fdt[n] = last.fdt[n]

\* The first open of the last leaf was that of its input redirection and
\* failed.
MissingInput(l) ==
    /\ l.kind \in {"cd", "external"}
    /\ l.scmd[1].in # NULL
    /\ l.opens # <<>>
    /\ l.opens[1].mode = "O_RDONLY" /\ ~l.opens[1].ok

\* A cd leaf whose argument is a path that names nothing.
MissingTarget(l) ==
    /\ l.kind = "cd"
    /\ l.scmd[1].params # NULL
    /\ l.scmd[1].params[1].string[1]
          \notin {S_empty, S_tilde, S_dotdot, S_dot, S_dash}
    /\ ~access(l.cwd, files, l.scmd[1].params[1].string[1])

\* cd - evaluated while OLDPWD was unset.
DashUnset(l) ==
    /\ l.kind = "cd"
    /\ l.scmd[1].params = lit(S_dash)
    /\ l.env[S_OLDPWD] = NULL

\* C14: a leaf with a user error (a cd to a path that does not exist, cd -
\* with OLDPWD unset, a missing input-redirection file) that has returned
\* returned a failure status, the engine is still running or has returned,
\* and when the leaf is the left branch of a sequence node the evaluator goes
\* on to the right branch.
C14_UserError ==
    (LeafReturned /\ (MissingInput(last) \/ MissingTarget(last) \/ DashUnset(last)))
        => /\ last.status # 0
           /\ proc \in {"running", "returned"}
           /\ \A p \in OpNodes("OP_SEQUENTIAL") :
                  (last.path = Left(p) /\ evals[Right(p)] = 0)
                      => ENABLED Sequential_cmd2

\* The open calls the last leaf made on the file path names.
OpensOf(l, path) ==
    {i \in DOMAIN l.opens : Resolve(l.cwd, l.opens[i].path) = Resolve(l.cwd, path)}

\* The output and error chains of the last leaf resolve to the same path.
SamePath(l) ==
    /\ l.scmd[1].out # NULL /\ l.scmd[1].err # NULL
    /\ token_to_string(l.scmd[1].out, l.env) = token_to_string(l.scmd[1].err, l.env)

\* C15: when the output and error redirections of a command resolve to the
\* same path, manage_redirections opens that path exactly once, and the
\* descriptor table it leaves has standard output and standard error bound to
\* one open file of that path.
C15_OpenOnce ==
    (Redirected /\ SamePath(last))
        => /\ Cardinality(OpensOf(last, token_to_string(last.scmd[1].out, last.env)[1])) = 1
           /\ manage_redirections(last.scmd[1], last.fdt, last.files,
                                  last.cwd, last.env).fdt[STDOUT_FILENO]
                = manage_redirections(last.scmd[1], last.fdt, last.files,
                                      last.cwd, last.env).fdt[STDERR_FILENO]

\* The opens for writing that the last leaf made and that succeeded.
WriteOpens(l) ==
    {i \in DOMAIN l.opens : l.opens[i].mode # "O_RDONLY" /\ l.opens[i].ok}

\* C16: when the append flag of a command is set, no open that
\* manage_redirections makes for its output or error redirection truncates
\* and the file keeps the content it had; when the flag is not set every
\* such open truncates and the file is left empty.
C16_Append ==
    Redirected =>
        \A i \in WriteOpens(last) :
            IF last.scmd[1].io_flags # 0
            THEN /\ last.opens[i].mode = "O_APPEND"
                 /\ last.files[Resolve(last.cwd, last.opens[i].path)] = "data"
                       => files[Resolve(last.cwd, last.opens[i].path)] = "data"
            ELSE /\ last.opens[i].mode = "O_TRUNC"
                 /\ files[Resolve(last.cwd, last.opens[i].path)] = "empty"

\* The last leaf was a cd that returned from shell_cd (every redirection it
\* carried succeeded); its argument is a string.
CdRan(l) ==
    /\ l.kind = "cd"
    /\ l.scmd[1].params # NULL
    /\ \A i \in DOMAIN l.opens : l.opens[i].ok

\* C17: a cd leaf whose argument is . or a path that does not exist leaves
\* the working directory unchanged and returns 0; a cd leaf that changed the
\* working directory returns 0.
C17_CdQuirk ==
    (LeafReturned /\ CdRan(last))
        => /\ (last.scmd[1].params = lit(S_dot) \/ MissingTarget(last))
                 => cwd = last.cwd /\ last.status = SUCCESS_CODE
           /\ cwd # last.cwd => last.status = SUCCESS_CODE

\* The verb of a leaf has the shape name, =, value...: three fragments or
\* more, the second exactly the string =.
AssignmentShape(verb) ==
    /\ Len(verb) >= 3
    /\ verb[2].string = Ptr(S_eq)

\* C18: a leaf whose verb is not cd, exit or quit is handled as an assignment
\* exactly when its verb has the shape name, =, value..., otherwise by the
\* external process launcher, and the assignment does not fail on a fragment
\* that is missing (the process does not crash).
C18_AssignmentShape ==
    last.kind \in {"assignment", "external"}
        => /\ last.kind = "assignment" <=> AssignmentShape(last.scmd[1].verb)
           /\ proc # "crashed"

\* C19: once a call of parse_command has returned, the shell holds the
\* descriptors it held when evaluation started and no other, and waitpid has
\* returned for every child process created.
C19_NoLeak ==
    (\E p \in Nodes(tree) : Returned(p))
        => /\ DOMAIN fdt = StandardStreams
           /\ nwaited = nchild

\* An external command ran in a child, then a cd whose input redirection
\* failed returned early.
C19_Witness ==
    /\ LeafReturned
    /\ last.kind = "cd" /\ MissingInput(last)
    /\ last.status = FAILURE_CODE
    /\ nchild = 1 /\ nwaited = 1
    /\ Returned(<<>>)

\* C20: after an external-command leaf has returned, the shell's working
\* directory, environment and descriptor table are what they were before it.
C20_ExternalFrame ==
    (LeafReturned /\ last.kind = "external")
        => /\ cwd = last.cwd
           /\ env = last.env
           /\ fdt = last.fdt

\* An external command whose output redirection the child applied (the file
\* was created) and whose program could not be loaded has returned.
C20_Witness ==
    /\ LeafReturned /\ last.kind = "external"
    /\ last.opens # <<>> /\ last.opens[1].ok
    /\ last.files[S_g] = "absent" /\ files[S_g] = "empty"
    /\ last.child = Ptr([exited |-> TRUE, code |-> FAILURE_CODE])
    /\ last.scmd[1].verb = lit(S_nx)

====
